---- MODULE Spec2Model ----
(***************************************************************************)
(* Model of ChatLunaStorageService (temporary-object manager): metadata    *)
(* table chatluna_storage_temp, storage backend objects, the LRU list and  *)
(* the asynchronous operations createTempFile, getTempFile, the expiry     *)
(* sweep and the two eviction policies.                                    *)
(*                                                                         *)
(* The repository carries two revisions of the service:                    *)
(*   rev = "hash"   src/unnamed/part_000 (content-hash dedup, removeFile)  *)
(*   rev = "legacy" src/src/service/storage.ts (no dedup, inline removal)  *)
(* Every step of an async function is "the awaited call completes and the  *)
(* continuation runs up to the next await".                                *)
(***************************************************************************)
EXTENDS Integers, Sequences, FiniteSets, TLC

\* ---------------------------------------------------------------- bounds
MaxCalls == 2          \* createTempFile/getTempFile calls ever started
MaxSlots == 2          \* calls in flight at the same moment
MaxTime == 3           \* the clock runs from StartTime to MaxTime
MaxStorageCount == 2   \* config.maxStorageCount
MaxSizeBytes == 3      \* config.maxStorageSize * 1024 * 1024
TempCacheTime == 2     \* config.tempCacheTime (hours = clock units)

\* ------------------------------------------------------------- constants
StartTime == 2          \* the clock when the service is constructed
LegacyFiles == 2        \* rows that may exist before the service starts
MaxFiles == LegacyFiles + MaxCalls
NULL == -3
HEAD == -1             \* lruHead sentinel node
TAIL == -2             \* lruTail sentinel node
NoHash == 0            \* hash: '' (not yet computed)
NoTtl == -1            \* expireHours argument not supplied

Contents == {1, 2}                 \* distinct byte contents
Filenames == {"a", "b.txt"}        \* caller-supplied filenames
TtlArgs == {NoTtl, 0, 1}           \* expireHours argument
\* the argument triples createTempFile is called with
CreateInputs == {<<1, "a", NoTtl>>, <<1, "b.txt", 0>>, <<2, "b.txt", 1>>}
Revs == {"hash", "legacy"}
Slots == 1..MaxSlots
Sweepers == {"startExec", "startCleanup", "timer"}

\* ------------------------------------------------------- pure functions
\* computeHash: SHA-256 hex digest, never the empty string, distinct for
\* distinct contents
computeHash(c) == 100 + c

\* buffer.length
BufferLength(c) == c

\* the id is the stem of the random file name, the name is the stem plus
\* the extension of the caller's filename (none when it has no '.')
IdKey(i) == 2 * i
HasExtension(fname) == fname = "b.txt"
NameKey(i, fname) == IF HasExtension(fname) THEN 2 * i + 1 ELSE 2 * i

Keys == 0..(2 * MaxFiles + 1)
UnknownKey == 2 * MaxFiles + 2     \* a string that names no file
Nodes == {HEAD, TAIL} \cup Keys \cup {UnknownKey}

\* Math.floor(maxStorageCount * 0.8); Floor100 is the target without the
\* factor 0.8
Floor100(m) == m
Floor80(m) == (m * 8) \div 10

\* currentSize <= maxSizeBytes * 0.8; AtMost100 is the test without the
\* factor 0.8
AtMost100(size, max) == size <= max
AtMost80(size, max) == size * 10 <= max * 8

\* ------------------------------------------------------------------ state
VARIABLES
    rev,          \* which revision of the service runs
    backendType,  \* storageBackend.type of the active backend
    config,       \* the backend's configuration
    fetched,      \* the network request the last backend operation issued
    turn,         \* "any": operations interleave at their awaits; otherwise
                  \* operations run one at a time: "free" or the running one
    active,       \* ctx.scope.isActive
    now,          \* Date.now()
    db,           \* table chatluna_storage_temp: id -> row
    objects,      \* stored bytes (local files and backend objects): path -> content
    uploads,      \* number of storageBackend.upload calls that were issued
    lruNext,      \* LRUNode.next, per node
    lruPrev,      \* LRUNode.prev, per node
    lruMap,       \* keys of lruMap (each maps to the node of that key)
    nextId,       \* next random file name stem
    callsLeft,    \* calls that may still start
    call,         \* per slot: the createTempFile/getTempFile call in flight
    backfill,     \* pending hash backfill continuations of getTempFile
    sw,           \* per sweeper: position in execute / executeCleanup
    lruInit,      \* initializeLRU has not run its loop yet
    last          \* summary of the step that completed most recently

vars == <<rev, backendType, config, fetched, turn, active, now, db, objects, uploads,
          lruNext, lruPrev, lruMap, nextId, callsLeft, call, backfill, sw,
          lruInit, last>>

\* ------------------------------------------------------------ LRU list
LRU == [next |-> lruNext, prev |-> lruPrev, map |-> lruMap]

\* constructor: head and tail sentinels linked to each other, empty map
EmptyLRU ==
    [next |-> [n \in Nodes |-> IF n = HEAD THEN TAIL ELSE NULL],
     prev |-> [n \in Nodes |-> IF n = TAIL THEN HEAD ELSE NULL],
     map  |-> {}]

\* RemoveFromLRUKeepsKey is a removal without `this.lruMap.delete(fileId)`
RemoveFromLRUKeepsKey(L, fileId) == IF fileId \in L.map THEN [next |-> [L.next EXCEPT ![L.prev[fileId]] = L.next[fileId], ![fileId] = NULL], prev |-> [L.prev EXCEPT ![L.next[fileId]] = L.prev[fileId], ![fileId] = NULL], map |-> L.map] ELSE L
removeFromLRU(L, fileId) ==
    IF fileId \in L.map
    THEN [next |-> [L.next EXCEPT ![L.prev[fileId]] = L.next[fileId],
                                  ![fileId] = NULL],
          prev |-> [L.prev EXCEPT ![L.next[fileId]] = L.prev[fileId],
                                  ![fileId] = NULL],
          map  |-> L.map \ {fileId}]
    ELSE L

\* AddToLRUNoUnlink is an insertion that does not unlink the id first;
\* AddToLRUNoBackLink is one without `this.lruHead.next!.prev = newNode`
AddToLRUNoBackLink(L, fileId) == LET L1 == IF fileId \in L.map THEN removeFromLRU(L, fileId) ELSE L IN [next |-> [L1.next EXCEPT ![HEAD] = fileId, ![fileId] = L1.next[HEAD]], prev |-> [L1.prev EXCEPT ![fileId] = HEAD], map |-> L1.map \cup {fileId}]
AddToLRUNoUnlink(L, fileId) == [next |-> [L.next EXCEPT ![HEAD] = fileId, ![fileId] = L.next[HEAD]], prev |-> [L.prev EXCEPT ![L.next[HEAD]] = fileId, ![fileId] = HEAD], map |-> L.map \cup {fileId}]
addToLRU(L, fileId) ==
    LET L1 == IF fileId \in L.map THEN removeFromLRU(L, fileId) ELSE L
        first == L1.next[HEAD]
    IN [next |-> [L1.next EXCEPT ![HEAD] = fileId, ![fileId] = first],
        prev |-> [L1.prev EXCEPT ![first] = fileId, ![fileId] = HEAD],
        map  |-> L1.map \cup {fileId}]

getLRUVictim(L) == IF L.prev[TAIL] = HEAD THEN NULL ELSE L.prev[TAIL]

\* the most recently used entry: the node next to the head sentinel
LRUFirst(L) == IF L.next[HEAD] = TAIL THEN NULL ELSE L.next[HEAD]

\* the file ids of the list from the node after n to the tail sentinel,
\* at most k of them
RECURSIVE LRUWalk(_, _, _)
LRUWalk(L, n, k) ==
    IF k = 0 \/ L.next[n] \in {TAIL, NULL} THEN <<>>
    ELSE <<L.next[n]>> \o LRUWalk(L, L.next[n], k - 1)
\* the list from its most recent to its least recent entry
LRUOrder(L) == LRUWalk(L, HEAD, Cardinality(Nodes))

RECURSIVE AddAllToLRU(_, _)
AddAllToLRU(L, ids) ==
    IF ids = <<>> THEN L ELSE AddAllToLRU(addToLRU(L, Head(ids)), Tail(ids))

\* ------------------------------------------------------ metadata table
Live == DOMAIN db

\* database.remove(table, {id})
DbRemove(d, id) == [k \in (DOMAIN d) \ {id} |-> d[k]]

\* database.create(table, row)
DbCreate(d, row) == [k \in (DOMAIN d) \cup {row.id} |->
                        IF k = row.id THEN row ELSE d[k]]

\* database.set(table, {id}, {accessTime, accessCount}): no row, no effect;
\* DbUpsertAccess is a write that inserts the row when the query matches none
\* DbSetAccessAndExpiry is a write that also renews expireTime
DbSetAccessAndExpiry(d, id, t, count) == IF id \in DOMAIN d THEN [d EXCEPT ![id].accessTime = t, ![id].accessCount = count, ![id].expireTime = t + TempCacheTime] ELSE d
DbUpsertAccess(d, id, t, count) == [k \in (DOMAIN d) \cup {id} |-> IF k = id THEN [(IF id \in DOMAIN d THEN d[id] ELSE [id |-> id, name |-> id, path |-> id, expireTime |-> 0, size |-> 0, accessTime |-> 0, accessCount |-> 0, storageType |-> "local", hash |-> NoHash]) EXCEPT !.id = id, !.accessTime = t, !.accessCount = count] ELSE d[k]]
DbSetAccess(d, id, t, count) ==
    IF id \in DOMAIN d
    THEN [d EXCEPT ![id].accessTime = t, ![id].accessCount = count]
    ELSE d

\* database.set(table, {id}, {hash}); DbSetHashAndCount is a write that
\* also counts an access
DbSetHashAndCount(d, id, h) == IF id \in DOMAIN d THEN [d EXCEPT ![id].hash = h, ![id].accessCount = @ + 1] ELSE d
DbSetHash(d, id, h) ==
    IF id \in DOMAIN d THEN [d EXCEPT ![id].hash = h] ELSE d

\* rows come back in primary-key order
RECURSIVE SeqOfSet(_)
SeqOfSet(S) ==
    IF S = {} THEN <<>>
    ELSE LET m == CHOOSE x \in S : \A y \in S : x <= y
         IN <<m>> \o SeqOfSet(S \ {m})

\* files.sort((a, b) => a.accessTime - b.accessTime): stable
RECURSIVE SortAscending(_, _)
SortAscending(d, S) ==
    IF S = {} THEN <<>>
    ELSE LET m == CHOOSE x \in S : \A y \in S :
                      \/ d[x].accessTime < d[y].accessTime
                      \/ d[x].accessTime = d[y].accessTime /\ x <= y
         IN <<m>> \o SortAscending(d, S \ {m})

\* files.sort((a, b) => b.accessTime - a.accessTime): stable
RECURSIVE SortDescending(_, _)
SortDescending(d, S) ==
    IF S = {} THEN <<>>
    ELSE LET m == CHOOSE x \in S : \A y \in S :
                      \/ d[x].accessTime > d[y].accessTime
                      \/ d[x].accessTime = d[y].accessTime /\ x <= y
         IN <<m>> \o SortDescending(d, S \ {m})

RECURSIVE SumSize(_, _)
SumSize(d, S) ==
    IF S = {} THEN 0
    ELSE LET x == CHOOSE y \in S : TRUE IN d[x].size + SumSize(d, S \ {x})

TotalSize == SumSize(db, Live)

\* the fields of a row that removal and download use
Snapshot(d, ids) == [i \in 1..Len(ids) |-> d[ids[i]]]

\* ------------------------------------------------------------- initial
\* a row written by an earlier release: no storageType (read as 'local'),
\* hash ''
LegacyRow(n) ==
    [id |-> IdKey(n), name |-> NameKey(n, "b.txt"), path |-> NameKey(n, "b.txt"),
     expireTime |-> IF n = 0 THEN StartTime ELSE MaxTime + TempCacheTime,
     size |-> BufferLength(1), accessTime |-> n, accessCount |-> 1,
     storageType |-> "local", hash |-> NoHash]

NoRow ==
    [id |-> NULL, name |-> NULL, path |-> NULL, expireTime |-> 0, size |-> 0,
     accessTime |-> 0, accessCount |-> 0, storageType |-> "local",
     hash |-> NoHash]

EmptyDb == [k \in {} |-> NoRow]
EmptyObjects == [k \in {} |-> 0]

IdleCall ==
    [op |-> "idle", pc |-> "idle", arg |-> NULL, fname |-> "a",
     expireHours |-> NoTtl, ttl |-> NoTtl,
     newId |-> NULL, file |-> NoRow, t |-> 0, expireTime |-> 0]

IdleSweep == [pc |-> "idle", phase |-> "none", queue |-> <<>>, cutoff |-> 0,
              currentSize |-> 0, threw |-> FALSE, via |-> "none",
              failed |-> FALSE]

NoLast == [op |-> "none", id |-> NULL, arg |-> NULL, res |-> NULL,
           threw |-> FALSE, by |-> "none"]

\* an S3 configuration with both credentials, virtual-hosted URLs
DefaultConfig == [credentials |-> TRUE, pathStyle |-> FALSE]
NoRequest == <<>>

InitCommon ==
    /\ rev \in Revs
    /\ backendType = "s3"
    /\ config = DefaultConfig
    /\ fetched = NoRequest
    /\ active = TRUE
    /\ now = StartTime
    /\ \E n \in 0..LegacyFiles :
          /\ db = [k \in {IdKey(i) : i \in 0..(n - 1)} |-> LegacyRow(k \div 2)]
          \* the file of the oldest row may be gone from the disk
          /\ \/ objects = [k \in {LegacyRow(i).path : i \in 0..(n - 1)} |-> 1]
             \/ n = 1 /\ objects = EmptyObjects
    /\ uploads = 0
    /\ lruNext = EmptyLRU.next
    /\ lruPrev = EmptyLRU.prev
    /\ lruMap = EmptyLRU.map
    /\ nextId = LegacyFiles
    /\ callsLeft = MaxCalls
    /\ call = [s \in Slots |-> IdleCall]
    /\ backfill = {}
    \* the constructor has called execute() and executeCleanup(), both are
    \* waiting for their first database.get; initializeLRU likewise
    /\ sw = [p \in Sweepers |->
               CASE p = "startExec" ->
                      [IdleSweep EXCEPT !.pc = "query", !.phase = "expire",
                                        !.cutoff = StartTime]
                 [] p = "startCleanup" ->
                      [IdleSweep EXCEPT !.pc = "query", !.phase = "size"]
                 [] OTHER -> IdleSweep]
    /\ lruInit = TRUE
    /\ last = NoLast

Init == InitCommon /\ turn = "any"
InitSerial == InitCommon /\ turn = "startExec"

\* ----------------------------------------------------------- scheduling
\* With turn = "any" the operations interleave at their awaits.  Otherwise
\* one operation runs at a time, the three started by the constructor first.
CanStep(p) == turn \in {"any", "free", p}
Yield(p, finished) ==
    turn' = IF turn = "any" THEN "any"
            ELSE IF ~finished THEN p
            ELSE CASE p = "startExec" -> "startCleanup"
                   [] p = "startCleanup" -> "lruInit"
                   [] OTHER -> "free"

\* the three database.get calls issued by the constructor are answered
\* before any request issued later
StartupQueriesDone ==
    /\ ~lruInit
    /\ sw["startExec"].pc # "query"
    /\ ~(sw["startCleanup"].pc = "query" /\ sw["startCleanup"].phase = "size")

\* ------------------------------------------------------------ the clock
Tick ==
    /\ now < MaxTime
    /\ now' = now + 1
    /\ UNCHANGED <<rev, backendType, config, fetched, turn, active, db, objects, uploads,
                   lruNext, lruPrev, lruMap, nextId, callsLeft, call, backfill,
                   sw, lruInit, last>>

\* the host disposes the plugin context
Dispose ==
    /\ active
    /\ active' = FALSE
    /\ UNCHANGED <<rev, backendType, config, fetched, turn, now, db, objects, uploads,
                   lruNext, lruPrev, lruMap, nextId, callsLeft, call, backfill,
                   sw, lruInit, last>>

\* ------------------------------------------------------- initializeLRU
\* database.get returns; the rows are sorted by accessTime, newest first,
\* and added one by one, so the oldest row ends next to the head
InitializeLRU ==
    /\ lruInit
    /\ CanStep("lruInit")
    /\ LET L == AddAllToLRU(LRU, SortDescending(db, Live))
       IN /\ lruNext' = L.next
          /\ lruPrev' = L.prev
          /\ lruMap' = L.map
    /\ lruInit' = FALSE
    /\ Yield("lruInit", TRUE)
    /\ UNCHANGED <<rev, backendType, config, fetched, active, now, db, objects, uploads,
                   nextId, callsLeft, call, backfill, sw, last>>

\* ------------------------------------------- removal of a stored object
Without(objs, path) == [k \in (DOMAIN objs) \ {path} |-> objs[k]]

\* deleteFileFromBackend(file): the possible results, as the objects left,
\* what the delete was issued to (the file system or the active backend,
\* named by its type), whether that delete failed and whether the call
\* threw.  A 'local' row is unlinked from the file system (ENOENT when the
\* file is gone); any other row is deleted through the active backend,
\* whose error is rethrown only when the backend type is the row's type.
\* LocalStorageBackend.delete never throws.  DeleteRethrowsAlways is the
\* function without the catch around storageBackend.delete.
DeleteRethrowsAlways(file) == IF file.storageType = "local" THEN (IF file.path \in DOMAIN objects THEN {[objs |-> Without(objects, file.path), via |-> "fs", failed |-> FALSE, threw |-> FALSE]} ELSE {[objs |-> objects, via |-> "fs", failed |-> TRUE, threw |-> TRUE]}) ELSE {[objs |-> Without(objects, file.path), via |-> backendType, failed |-> FALSE, threw |-> FALSE]} \cup (IF backendType = "local" THEN {} ELSE {[objs |-> objects, via |-> backendType, failed |-> TRUE, threw |-> TRUE]})
deleteFileFromBackend(file) ==
    IF file.storageType = "local"
    THEN IF file.path \in DOMAIN objects
         THEN {[objs |-> Without(objects, file.path), via |-> "fs",
                failed |-> FALSE, threw |-> FALSE]}
         ELSE {[objs |-> objects, via |-> "fs", failed |-> TRUE,
                threw |-> TRUE]}
    ELSE {[objs |-> Without(objects, file.path), via |-> backendType,
           failed |-> FALSE, threw |-> FALSE]}
         \cup (IF backendType = "local" THEN {}
               ELSE {[objs |-> objects, via |-> backendType, failed |-> TRUE,
                      threw |-> (backendType = file.storageType)]})

\* removeFile (part_000) and the try/catch around the inline removal
\* (storage.ts): an error of deleteFileFromBackend is caught, the metadata
\* row is removed next in either case; AfterDeleteRethrows is the removal
\* without the catch, where the error ends the sweep
AfterDeleteRethrows(threw) == IF threw THEN "rejected" ELSE "remove"
AfterDelete(threw) == "remove"

\* removeFile calls removeFromLRU after database.remove; so do the inline
\* removals of both eviction policies in storage.ts, but the expiry loop
\* of storage.ts execute() does not
RemovesLRUEntry(revision, phase) ==
    ~(revision = "legacy" /\ phase = "expire")

\* ------------------------------------------------- execute / cleanup
StartSize == [IdleSweep EXCEPT !.pc = "query", !.phase = "size"]
StartCount == [IdleSweep EXCEPT !.pc = "query", !.phase = "count"]

\* execute() has returned: the startup call is over, the interval callback
\* goes on to executeCleanup(), which returns at once on an inactive scope;
\* AfterExecuteUnchecked is executeCleanup without the isActive test
AfterExecuteUnchecked(p) == IF p = "timer" THEN StartSize ELSE IdleSweep
AfterExecute(p) == IF p = "timer" /\ active THEN StartSize ELSE IdleSweep

\* the head of the removal loop of the running phase, with q the files
\* still to visit
ContinueLoop(p, phase, q, cs) ==
    IF phase = "size"
    THEN IF q = <<>> \/ AtMost80(cs, MaxSizeBytes)
         THEN StartCount
         ELSE [IdleSweep EXCEPT !.pc = "delete", !.phase = "size", !.queue = q,
                  !.currentSize = IF rev = "hash" THEN cs - Head(q).size ELSE cs]
    ELSE IF q = <<>>
         THEN IF phase = "expire" THEN AfterExecute(p) ELSE IdleSweep
         ELSE [IdleSweep EXCEPT !.pc = "delete", !.phase = phase, !.queue = q]

\* database.get of the running phase returns
AfterQuery(p, phase, cutoff) ==
    CASE phase = "expire" ->
           ContinueLoop(p, "expire",
               Snapshot(db, SeqOfSet({i \in Live : db[i].expireTime < cutoff})),
               0)
      [] phase = "size" ->
           IF TotalSize <= MaxSizeBytes
           THEN StartCount
           ELSE ContinueLoop(p, "size", Snapshot(db, SortAscending(db, Live)),
                             TotalSize)
      [] OTHER ->
           IF Cardinality(Live) <= MaxStorageCount
           THEN IdleSweep
           ELSE ContinueLoop(p, "count",
                    SubSeq(Snapshot(db, SortAscending(db, Live)), 1,
                           Cardinality(Live) - Floor80(MaxStorageCount)),
                    0)

\* the interval callback: execute(), then executeCleanup(); the step is the
\* return of execute's database.get
TimerFire ==
    /\ sw["timer"].pc = "idle"
    /\ sw["startExec"].pc = "idle" /\ sw["startCleanup"].pc = "idle"
    /\ ~lruInit
    /\ turn \in {"any", "free"}
    /\ active
    /\ sw' = [sw EXCEPT !["timer"] = AfterQuery("timer", "expire", now)]
    /\ Yield("timer", AfterQuery("timer", "expire", now).pc = "idle")
    /\ UNCHANGED <<rev, backendType, config, fetched, active, now, db, objects, uploads,
                   lruNext, lruPrev, lruMap, nextId, callsLeft, call, backfill,
                   lruInit, last>>

SweepQuery(p) ==
    /\ sw[p].pc = "query"
    /\ CanStep(p)
    /\ sw' = [sw EXCEPT ![p] = AfterQuery(p, sw[p].phase, sw[p].cutoff)]
    /\ Yield(p, AfterQuery(p, sw[p].phase, sw[p].cutoff).pc = "idle")
    /\ UNCHANGED <<rev, backendType, config, fetched, active, now, db, objects, uploads,
                   lruNext, lruPrev, lruMap, nextId, callsLeft, call, backfill,
                   lruInit, last>>

\* deleteFileFromBackend returns or throws
SweepDelete(p) ==
    /\ sw[p].pc = "delete"
    /\ CanStep(p)
    /\ \E o \in deleteFileFromBackend(Head(sw[p].queue)) :
          /\ objects' = o.objs
          /\ IF AfterDelete(o.threw) = "remove"
             THEN /\ sw' = [sw EXCEPT ![p].pc = "remove", ![p].threw = o.threw,
                                       ![p].via = o.via,
                                       ![p].failed = o.failed]
                  /\ last' = last
                  /\ Yield(p, FALSE)
             ELSE /\ sw' = [sw EXCEPT ![p] = IdleSweep]
                  /\ last' = [NoLast EXCEPT !.op = "sweepRejected",
                                            !.id = Head(sw[p].queue).id,
                                            !.by = sw[p].phase]
                  /\ Yield(p, TRUE)
    /\ UNCHANGED <<rev, backendType, config, fetched, active, now, db, uploads,
                   lruNext, lruPrev, lruMap, nextId, callsLeft, call, backfill,
                   lruInit>>

\* database.remove returns; the recency entry is dropped and the loop goes on
SweepRemove(p) ==
    /\ sw[p].pc = "remove"
    /\ CanStep(p)
    /\ LET r == sw[p]
           file == Head(r.queue)
           L == IF RemovesLRUEntry(rev, r.phase)
                THEN removeFromLRU(LRU, file.id) ELSE LRU
           cs == IF rev = "legacy" /\ r.phase = "size"
                 THEN r.currentSize - file.size ELSE r.currentSize
           nxt == ContinueLoop(p, r.phase, Tail(r.queue), cs)
       IN /\ db' = DbRemove(db, file.id)
          /\ lruNext' = L.next
          /\ lruPrev' = L.prev
          /\ lruMap' = L.map
          /\ sw' = [sw EXCEPT ![p] = nxt]
          /\ last' = [NoLast EXCEPT !.op = "remove", !.id = file.id,
                                    !.arg = r.via, !.res = r.failed,
                                    !.threw = r.threw, !.by = r.phase]
          /\ Yield(p, nxt.pc = "idle")
    /\ UNCHANGED <<rev, backendType, config, fetched, active, now, objects, uploads,
                   nextId, callsLeft, call, backfill, lruInit>>

Sweep == \E p \in Sweepers : SweepQuery(p) \/ SweepDelete(p) \/ SweepRemove(p)

\* ------------------------------------------------------ reading bytes
ReadError == -1

\* what a read of the row's bytes contacts: the active backend (named by
\* its type) when the row's type is the backend's and not 'local', otherwise
\* the local file system ("fs"); ReadsFromRecorded is a dispatch on the
\* row's type alone, which contacts the backend that stored the row
ReadsFromRecorded(file) == IF file.storageType # "local" THEN file.storageType ELSE "fs"
ReadsFrom(file) ==
    IF file.storageType # "local" /\ backendType = file.storageType
    THEN backendType ELSE "fs"

\* downloadFile(file) (part_000) and the inline dispatch of getTempFile
\* (storage.ts): the active backend's download when the row's type is the
\* backend's and not 'local', otherwise fs.readFile(file.path), which finds
\* only files of the local file system.  The value is what the returned
\* promise settles to; the call itself never throws.
downloadFile(file) ==
    IF ReadsFrom(file) = backendType
    THEN IF file.path \in DOMAIN objects THEN objects[file.path] ELSE ReadError
    ELSE IF ReadsFrom(file) = "fs" /\ file.storageType = "local"
               /\ file.path \in DOMAIN objects
         THEN objects[file.path] ELSE ReadError

\* the try block of getTempFile creates the promise and does not await it:
\* a failing read rejects the promise and is never caught by the catch;
\* ThrowsInTryAwaited is the try block with the read awaited
ThrowsInTryAwaited(readResult) == readResult = ReadError
ThrowsInTry(readResult) == FALSE

\* ------------------------------------------------------------ the calls
SlotName(s) == IF turn = "any" THEN "any" ELSE "call"
FreeSlot(s) == call[s].op = "idle" /\ \A q \in Slots : q < s => call[q].op # "idle"
\* arguments of getTempFile: an id or a name of a live row, or neither
GetArgs == Live \cup {db[i].name : i \in Live} \cup {UnknownKey}

FirstOf(S) == CHOOSE x \in S : \A y \in S : x <= y

\* expireHours || this.config.tempCacheTime
EffectiveTtl(expireHours) ==
    IF expireHours = NoTtl \/ expireHours = 0 THEN TempCacheTime ELSE expireHours

\* createTempFile(buffer, filename, expireHours): the call as it stands
\* at its first await
NewCall(c, fname, ttl) ==
    [IdleCall EXCEPT !.op = "create", !.arg = c, !.fname = fname,
                     !.expireHours = ttl,
                     !.ttl = EffectiveTtl(ttl), !.newId = nextId]

CanStart(s) ==
    /\ FreeSlot(s)
    /\ turn \in {"any", "free"}
    /\ active /\ StartupQueriesDone

\* part_000: the hash is computed and database.get({hash}) returns
CreateLookup(s, c, fname, ttl) ==
    /\ rev = "hash"
    /\ CanStart(s)
    /\ callsLeft > 0
    /\ LET existing == {i \in Live : db[i].hash = computeHash(c)}
       IN IF existing # {}
          THEN call' = [call EXCEPT ![s] =
                          [NewCall(c, fname, ttl) EXCEPT
                              !.pc = "dedupSet",
                              !.file = db[FirstOf(existing)],
                              !.t = now]]
          ELSE call' = [call EXCEPT ![s] =
                          [NewCall(c, fname, ttl) EXCEPT !.pc = "upload"]]
    /\ nextId' = nextId + 1
    /\ callsLeft' = callsLeft - 1
    /\ Yield(SlotName(s), FALSE)
    /\ UNCHANGED <<rev, backendType, config, fetched, active, now, db, objects, uploads,
                   lruNext, lruPrev, lruMap, backfill, sw,
                   lruInit, last>>

\* database.set of the dedup hit returns; the call returns the existing row
CreateDedupSet(s) ==
    /\ call[s].op = "create" /\ call[s].pc = "dedupSet"
    /\ CanStep(SlotName(s))
    /\ LET dup == call[s].file
           L == addToLRU(LRU, dup.id)
       IN /\ db' = DbSetAccess(db, dup.id, call[s].t, dup.accessCount + 1)
          /\ lruNext' = L.next
          /\ lruPrev' = L.prev
          /\ lruMap' = L.map
          /\ last' = [NoLast EXCEPT !.op = "createHit", !.id = dup.id,
                                    !.arg = call[s].arg, !.res = dup.id,
                                    !.threw = (downloadFile(dup) = ReadError),
                                    !.by = ReadsFrom(dup)]
    /\ call' = [call EXCEPT ![s] = IdleCall]
    /\ Yield(SlotName(s), TRUE)
    /\ UNCHANGED <<rev, backendType, config, fetched, active, now, objects, uploads,
                   nextId, callsLeft, backfill, sw, lruInit>>

\* storageBackend.upload(buffer, randomName) of call c returns or throws;
\* UploadedSwallowed is an upload whose error is caught and ignored
UploadedSwallowed(s, c) ==
    /\ uploads' = uploads + 1
    /\ \E stored \in BOOLEAN :
          objects' = IF stored
                     THEN [k \in (DOMAIN objects) \cup
                                {NameKey(c.newId, c.fname)} |->
                             IF k = NameKey(c.newId, c.fname)
                             THEN c.arg ELSE objects[k]]
                     ELSE objects
    /\ call' = [call EXCEPT ![s] =
                  [c EXCEPT !.pc = "persist", !.t = now,
                            !.expireTime = now + c.ttl]]
    /\ last' = last
    /\ Yield(SlotName(s), FALSE)
Uploaded(s, c) ==
    /\ uploads' = uploads + 1
    /\ \/ /\ objects' = [k \in (DOMAIN objects) \cup
                              {NameKey(c.newId, c.fname)} |->
                           IF k = NameKey(c.newId, c.fname)
                           THEN c.arg ELSE objects[k]]
          /\ call' = [call EXCEPT ![s] =
                        [c EXCEPT !.pc = "persist", !.t = now,
                                  !.expireTime = now + c.ttl]]
          /\ last' = last
          /\ Yield(SlotName(s), FALSE)
       \/ /\ objects' = objects
          /\ call' = [call EXCEPT ![s] = IdleCall]
          /\ last' = [NoLast EXCEPT !.op = "createFailed",
                                    !.arg = c.arg, !.threw = TRUE]
          /\ Yield(SlotName(s), TRUE)

\* part_000: the upload that follows a lookup without a match
CreateUpload(s) ==
    /\ call[s].op = "create" /\ call[s].pc = "upload"
    /\ CanStep(SlotName(s))
    /\ Uploaded(s, call[s])
    /\ UNCHANGED <<rev, backendType, config, fetched, active, now, db, lruNext, lruPrev,
                   lruMap, nextId, callsLeft, backfill, sw, lruInit>>

\* storage.ts: createTempFile has no lookup, its first await is the upload
CreateUploadLegacy(s, c, fname, ttl) ==
    /\ rev = "legacy"
    /\ CanStart(s)
    /\ callsLeft > 0
    /\ Uploaded(s, NewCall(c, fname, ttl))
    /\ nextId' = nextId + 1
    /\ callsLeft' = callsLeft - 1
    /\ UNCHANGED <<rev, backendType, config, fetched, active, now, db, lruNext, lruPrev,
                   lruMap, backfill, sw, lruInit>>

\* the row createTempFile builds after the upload
NewRow(c) ==
    [id |-> IdKey(c.newId), name |-> NameKey(c.newId, c.fname),
     path |-> NameKey(c.newId, c.fname), expireTime |-> c.expireTime,
     size |-> BufferLength(c.arg), accessTime |-> c.t, accessCount |-> 1,
     storageType |-> backendType,
     hash |-> IF rev = "hash" THEN computeHash(c.arg) ELSE NoHash]

\* database.create returns
CreatePersist(s) ==
    /\ call[s].op = "create" /\ call[s].pc = "persist"
    /\ CanStep(SlotName(s))
    /\ LET fileInfo == NewRow(call[s])
           L == addToLRU(LRU, fileInfo.id)
       IN /\ db' = DbCreate(db, fileInfo)
          /\ lruNext' = L.next
          /\ lruPrev' = L.prev
          /\ lruMap' = L.map
          /\ last' = [NoLast EXCEPT !.op = "createMiss", !.id = fileInfo.id,
                                    !.arg = call[s].arg, !.res = fileInfo.id]
    /\ call' = [call EXCEPT ![s] = IdleCall]
    /\ Yield(SlotName(s), TRUE)
    /\ UNCHANGED <<rev, backendType, config, fetched, active, now, objects, uploads,
                   nextId, callsLeft, backfill, sw, lruInit>>

\* getTempFile(id): database.get({id}) returns
GetById(s, x) ==
    /\ CanStart(s)
    /\ callsLeft > 0
    /\ LET c == [IdleCall EXCEPT !.op = "get", !.arg = x]
       IN IF x \in Live
          THEN call' = [call EXCEPT ![s] =
                          [c EXCEPT !.pc = "set", !.file = db[x], !.t = now]]
          ELSE call' = [call EXCEPT ![s] = [c EXCEPT !.pc = "byName"]]
    /\ callsLeft' = callsLeft - 1
    /\ Yield(SlotName(s), FALSE)
    /\ UNCHANGED <<rev, backendType, config, fetched, active, now, db, objects, uploads,
                   lruNext, lruPrev, lruMap, nextId, backfill,
                   sw, lruInit, last>>

\* database.get({name: id}) returns
GetByName(s) ==
    /\ call[s].op = "get" /\ call[s].pc = "byName"
    /\ CanStep(SlotName(s))
    /\ LET found == {i \in Live : db[i].name = call[s].arg}
       IN IF found = {}
          THEN /\ call' = [call EXCEPT ![s] = IdleCall]
               /\ last' = [NoLast EXCEPT !.op = "get", !.arg = call[s].arg]
               /\ Yield(SlotName(s), TRUE)
          ELSE /\ call' = [call EXCEPT ![s].pc = "set",
                                       ![s].file = db[FirstOf(found)],
                                       ![s].t = now]
               /\ last' = last
               /\ Yield(SlotName(s), FALSE)
    /\ UNCHANGED <<rev, backendType, config, fetched, active, now, db, objects, uploads,
                   lruNext, lruPrev, lruMap, nextId, callsLeft, backfill, sw,
                   lruInit>>

\* database.set of the access refresh returns: the argument of the call is
\* added to the LRU list, the read is started, the hash backfill of a row
\* without hash is chained to the read (part_000 only), the row is returned
GetSet(s) ==
    /\ call[s].op = "get" /\ call[s].pc = "set"
    /\ CanStep(SlotName(s))
    /\ LET file == call[s].file
           id == call[s].arg
           data == downloadFile(file)
           touched == addToLRU(LRU, id)
           refreshed == DbSetAccess(db, file.id, call[s].t, file.accessCount + 1)
       IN IF ThrowsInTry(data)
          THEN LET L == removeFromLRU(touched, id)
               IN /\ db' = DbRemove(refreshed, id)
                  /\ lruNext' = L.next /\ lruPrev' = L.prev /\ lruMap' = L.map
                  /\ backfill' = backfill
                  /\ last' = [NoLast EXCEPT !.op = "get", !.arg = id,
                                            !.by = "purge"]
          ELSE /\ db' = refreshed
               /\ lruNext' = touched.next
               /\ lruPrev' = touched.prev
               /\ lruMap' = touched.map
               /\ backfill' =
                    IF rev = "hash" /\ file.hash = NoHash /\ data # ReadError
                    THEN backfill \cup {[id |-> file.id, hash |-> computeHash(data)]}
                    ELSE backfill
               /\ last' = [NoLast EXCEPT !.op = "get", !.id = file.id,
                                         !.arg = id, !.res = file.id,
                                         !.threw = (data = ReadError),
                                         !.by = ReadsFrom(file)]
    /\ call' = [call EXCEPT ![s] = IdleCall]
    /\ Yield(SlotName(s), TRUE)
    /\ UNCHANGED <<rev, backendType, config, fetched, active, now, objects, uploads,
                   nextId, callsLeft, sw, lruInit>>

\* the read has resolved and database.set({id}, {hash}) of the backfill
\* returns, or rejects and the error is logged
BackfillSet ==
    /\ turn \in {"any", "free"}
    /\ \E b \in backfill, written \in BOOLEAN :
          /\ db' = IF written THEN DbSetHash(db, b.id, b.hash) ELSE db
          /\ backfill' = backfill \ {b}
    /\ UNCHANGED <<rev, backendType, config, fetched, turn, active, now, objects, uploads,
                   lruNext, lruPrev, lruMap, nextId, callsLeft, call, sw,
                   lruInit, last>>

Create == \E s \in Slots :
             \/ \E i \in CreateInputs : CreateLookup(s, i[1], i[2], i[3])
             \/ \E i \in CreateInputs : CreateUploadLegacy(s, i[1], i[2], i[3])
             \/ CreateDedupSet(s) \/ CreateUpload(s) \/ CreatePersist(s)

Get == \E s \in Slots :
          \/ \E x \in GetArgs : GetById(s, x)
          \/ GetByName(s) \/ GetSet(s)

\* the operations interleaving at their awaits, the scope staying active
Next == Tick \/ InitializeLRU \/ TimerFire \/ Sweep
        \/ Create \/ Get \/ BackfillSet

\* one operation at a time; the host may dispose the scope
NextSerial == Next \/ Dispose

Spec == Init /\ [][Next]_vars
SpecSerial == InitSerial /\ [][NextSerial]_vars

\* one operation at a time; the interval keeps firing while the scope is
\* active and every awaited call of a sweep or of a request returns
NextLive == Next \/ Dispose
Fairness ==
    /\ WF_vars(TimerFire)
    /\ WF_vars(InitializeLRU)
    /\ \A p \in Sweepers : WF_vars(SweepQuery(p) \/ SweepDelete(p) \/ SweepRemove(p))
    /\ WF_vars(Create \/ Get)
SpecLive == InitSerial /\ [][NextLive]_vars /\ Fairness

\* a busier start: one row in the table and one more call than MaxCalls
InitBurst ==
    /\ rev \in Revs
    /\ backendType = "s3"
    /\ config = DefaultConfig
    /\ fetched = NoRequest
    /\ active = TRUE
    /\ now = StartTime
    /\ db = [k \in {IdKey(0)} |-> LegacyRow(0)]
    /\ objects = [k \in {LegacyRow(0).path} |-> 1]
    /\ uploads = 0
    /\ lruNext = EmptyLRU.next
    /\ lruPrev = EmptyLRU.prev
    /\ lruMap = EmptyLRU.map
    /\ nextId = LegacyFiles
    /\ callsLeft = MaxCalls + 1
    /\ call = [s \in Slots |-> IdleCall]
    /\ backfill = {}
    /\ sw = [p \in Sweepers |->
               CASE p = "startExec" ->
                      [IdleSweep EXCEPT !.pc = "query", !.phase = "expire",
                                        !.cutoff = StartTime]
                 [] p = "startCleanup" ->
                      [IdleSweep EXCEPT !.pc = "query", !.phase = "size"]
                 [] OTHER -> IdleSweep]
    /\ lruInit = TRUE
    /\ last = NoLast
    /\ turn = "any"
SpecBurst == InitBurst /\ [][Next]_vars

\* ------------------------------------------------ the storage backends
\* Paths and URLs are sequences of segments.  The store behind a remote
\* backend keeps what a PUT sends unless it rejects the request, answers a
\* GET of a missing object with 404 and a DELETE of one with 204 or 404,
\* and answers 403 to a request signed without credentials.
BackendTypes == {"local", "s3", "r2", "webdav"}
BackendNames == {"a", "b.txt", "c d"}
Configs == [credentials : BOOLEAN, pathStyle : BOOLEAN]

encodeURIComponent(str) == IF str = "c d" THEN "c%20d" ELSE str
\* path.split('/').map(encodeURIComponent).join('/')
encodePath(path) == [i \in 1..Len(path) |-> encodeURIComponent(path[i])]

\* `${endpoint.origin}/${bucket}/${key}` or
\* `${endpoint.protocol}//${bucket}.${endpoint.host}/${key}`
buildS3Url(cfg, key) ==
    IF cfg.pathStyle THEN <<"origin", "bucket">> \o key
    ELSE <<"bucket.host">> \o key

\* the key each upload returns for a file name
UploadKey(type, filename) ==
    CASE type = "local" -> <<"storagePath", "temp", filename>>
      [] type = "webdav" -> <<"basePath", "temp", filename>>
      [] OTHER -> <<"temp", filename>>

\* the file or URL a request for a key goes to
Location(type, cfg, key) ==
    CASE type = "local" -> key
      [] type = "s3" -> buildS3Url(cfg, key)
      [] type = "r2" -> <<"account.r2.cloudflarestorage.com", "bucket">> \o key
      [] OTHER -> <<"endpoint">> \o encodePath(key)

UploadLocation(type, cfg, filename) == Location(type, cfg, UploadKey(type, filename))
\* DownloadLocationUnencoded is a download that does not encode the path
DownloadLocationUnencoded(type, cfg, key) == IF type = "webdav" THEN <<"endpoint">> \o key ELSE Location(type, cfg, key)
DownloadLocation(type, cfg, key) == Location(type, cfg, key)
DeleteLocation(type, cfg, key) == Location(type, cfg, key)

\* generateAuthorizationHeader / getSigningKey: the key and the header are
\* built by string interpolation of the configured values, a missing value
\* is interpolated as 'undefined' and nothing is thrown
SigningThrows(cfg) == FALSE
Signed(type) == type \in {"s3", "r2"}
\* the store refuses a request signed without credentials
Unauthenticated(type, cfg) == Signed(type) /\ ~cfg.credentials

\* the request fetch() was called with; the local backend calls none
Request(type, method, location) ==
    IF type = "local" THEN NoRequest ELSE <<method, location>>

\* createHash('sha256').update(data).digest('hex'); no two bodies share a
\* digest
sha256(data) == <<"sha256", data>>
\* the sentinel of a request whose payload is not signed
UnsignedPayload == <<"UNSIGNED-PAYLOAD">>
\* a request without a body, and update('') of delete
EmptyBody == 0

\* const payloadHash = ... of upload, download, delete and exists
PayloadHash(method, body) ==
    CASE method = "PUT" -> sha256(body)
      [] method = "DELETE" -> sha256(EmptyBody)
      [] OTHER -> UnsignedPayload
\* headers['x-amz-content-sha256']
ContentSha256Header(method, body) == PayloadHash(method, body)
\* the payloadHash argument of generateAuthorizationHeader, the last line
\* of the canonical request; CanonicalPayloadUnsigned is a signer that
\* always signs the sentinel
CanonicalPayloadUnsigned(method, body) == UnsignedPayload
CanonicalPayloadHash(method, body) == PayloadHash(method, body)

\* headers['Host'] = new URL(url).host: the first segment of a URL is its
\* scheme and host
HostHeader(url) == Head(url)
\* const canonicalUri = `/${this.config.bucket}/${key}`
canonicalUri(key) == <<"bucket">> \o key

\* fetch(url, {method, headers, body}) as the backend calls it: the request,
\* its body and, for S3 and R2, the hash header, the hash that was signed,
\* the Host header and the canonical URI that was signed
Fetch(type, method, location, body, key) ==
    IF type = "local" THEN NoRequest
    ELSE Request(type, method, location) \o <<body>> \o
         (IF Signed(type)
          THEN <<ContentSha256Header(method, body),
                 CanonicalPayloadHash(method, body),
                 HostHeader(location), canonicalUri(key)>>
          ELSE <<>>)

\* `!response.ok && response.status !== 404` throws; DeleteToleratesNone
\* is the test without the exception for 404
DeleteToleratesNone(status) == status \in 200..299
DeleteTolerates(status) == status \in 200..299 \/ status = 404

BackendLast(op, arg, res, threw, by) ==
    [NoLast EXCEPT !.op = op, !.arg = arg, !.res = res, !.threw = threw,
                   !.by = by]

ServiceIdle ==
    <<rev, backendType, config, turn, active, now, db, uploads, lruNext,
      lruPrev, lruMap, nextId, callsLeft, call, backfill, sw, lruInit>>

\* upload(buffer, filename)
BackendUpload(c, filename) ==
    LET key == UploadKey(backendType, filename)
        loc == UploadLocation(backendType, config, filename)
    IN /\ ~SigningThrows(config)
       /\ fetched' = Fetch(backendType, "PUT", loc, c, key)
       /\ \E accepted \in BOOLEAN :
             /\ accepted => ~Unauthenticated(backendType, config)
             /\ IF accepted
                THEN /\ objects' = [k \in (DOMAIN objects) \cup {loc} |->
                                       IF k = loc THEN c ELSE objects[k]]
                     /\ last' = BackendLast("upload", c, key, FALSE, "none")
                ELSE /\ objects' = objects
                     /\ last' = BackendLast("upload", c, <<>>, TRUE, "none")
       /\ UNCHANGED ServiceIdle

\* download(key)
BackendDownload(key) ==
    LET loc == DownloadLocation(backendType, config, key)
        found == loc \in DOMAIN objects
                   /\ ~Unauthenticated(backendType, config)
    IN /\ ~SigningThrows(config)
       /\ fetched' = Fetch(backendType, "GET", loc, EmptyBody, key)
       /\ objects' = objects
       /\ last' = IF found
                  THEN BackendLast("download", key, objects[loc], FALSE, "found")
                  ELSE BackendLast("download", key, 0, TRUE, "missing")
       /\ UNCHANGED ServiceIdle

\* delete(key): LocalStorageBackend catches every error of fs.unlink; the
\* remote backends throw on a status that is neither ok nor 404
BackendDelete(key) ==
    LET loc == DeleteLocation(backendType, config, key)
        found == loc \in DOMAIN objects
        statuses == IF Unauthenticated(backendType, config) THEN {403}
                    ELSE IF found THEN {204} ELSE {204, 404}
    IN /\ ~SigningThrows(config)
       /\ fetched' = Fetch(backendType, "DELETE", loc, EmptyBody, key)
       /\ \E status \in statuses :
             /\ objects' = IF status = 204 /\ found
                           THEN Without(objects, loc) ELSE objects
             /\ last' = BackendLast("delete", key, 0,
                            backendType # "local" /\ ~DeleteTolerates(status),
                            IF found THEN "found" ELSE "missing")
       /\ UNCHANGED ServiceIdle

\* exists(key): fs.access succeeds, or the HEAD response is ok
BackendExists(key) ==
    LET loc == Location(backendType, config, key)
        found == loc \in DOMAIN objects
                   /\ ~Unauthenticated(backendType, config)
    IN /\ ~SigningThrows(config)
       /\ fetched' = Fetch(backendType, "HEAD", loc, EmptyBody, key)
       /\ objects' = objects
       /\ last' = BackendLast("exists", key, found, FALSE,
                              IF found THEN "found" ELSE "missing")
       /\ UNCHANGED ServiceIdle

InitBackend ==
    /\ rev = "hash"
    /\ backendType \in BackendTypes
    /\ config \in Configs
    /\ fetched = NoRequest
    /\ turn = "any"
    /\ active = TRUE
    /\ now = StartTime
    /\ db = EmptyDb
    /\ objects = EmptyObjects
    /\ uploads = 0
    /\ lruNext = EmptyLRU.next
    /\ lruPrev = EmptyLRU.prev
    /\ lruMap = EmptyLRU.map
    /\ nextId = LegacyFiles
    /\ callsLeft = 0
    /\ call = [s \in Slots |-> IdleCall]
    /\ backfill = {}
    /\ sw = [p \in Sweepers |-> IdleSweep]
    /\ lruInit = FALSE
    /\ last = NoLast

NextBackend ==
    \/ \E c \in Contents, filename \in BackendNames : BackendUpload(c, filename)
    \/ \E filename \in BackendNames :
          BackendDownload(UploadKey(backendType, filename))
    \/ \E filename \in BackendNames :
          BackendDelete(UploadKey(backendType, filename))
    \/ \E filename \in BackendNames :
          BackendExists(UploadKey(backendType, filename))
SpecBackend == InitBackend /\ [][NextBackend]_vars

\* ------------------------------------------------- the content classifier
MaxBufferLength == 13  \* longest buffer getImageType is applied to

undefined == "undefined"
\* buffer[i]: the byte at index i (from 0), undefined past the end
ByteAt(buffer, i) == IF i < Len(buffer) THEN buffer[i + 1] ELSE NULL

\* `buffer.length < 12`; TooShortNever is the function without that guard
TooShortNever(buffer) == FALSE
TooShort(buffer) == Len(buffer) < 12

\* getImageType(buffer, pure, checkIsImage)
getImageType(buffer, pure, checkIsImage) ==
    IF TooShort(buffer)
    THEN IF checkIsImage THEN undefined
         ELSE IF pure THEN "jpg" ELSE "image/jpeg"
    ELSE IF /\ ByteAt(buffer, 0) = 137 /\ ByteAt(buffer, 1) = 80
            /\ ByteAt(buffer, 2) = 78 /\ ByteAt(buffer, 3) = 71
            /\ ByteAt(buffer, 4) = 13 /\ ByteAt(buffer, 5) = 10
            /\ ByteAt(buffer, 6) = 26 /\ ByteAt(buffer, 7) = 10
    THEN IF pure THEN "png" ELSE "image/png"
    ELSE IF /\ ByteAt(buffer, 0) = 255 /\ ByteAt(buffer, 1) = 216
            /\ ByteAt(buffer, 2) = 255
    THEN IF pure THEN "jpg" ELSE "image/jpeg"
    ELSE IF /\ ByteAt(buffer, 0) = 71 /\ ByteAt(buffer, 1) = 73
            /\ ByteAt(buffer, 2) = 70 /\ ByteAt(buffer, 3) = 56
    THEN IF pure THEN "gif" ELSE "image/gif"
    ELSE IF /\ ByteAt(buffer, 0) = 82 /\ ByteAt(buffer, 1) = 73
            /\ ByteAt(buffer, 2) = 70 /\ ByteAt(buffer, 3) = 70
            /\ ByteAt(buffer, 8) = 87 /\ ByteAt(buffer, 9) = 69
            /\ ByteAt(buffer, 10) = 66 /\ ByteAt(buffer, 11) = 80
    THEN IF pure THEN "webp" ELSE "image/webp"
    ELSE IF checkIsImage THEN undefined
    ELSE IF pure THEN "jpg" ELSE "image/jpeg"

\* the buffers the classifier is applied to: a leading part (a magic number,
\* a near miss or none), bytes 8..11 (WEBP, a near miss or zeros), cut or
\* zero-padded to a length
Buffers ==
    LET BufferHeads ==
            {<<137, 80, 78, 71, 13, 10, 26, 10>>,
             <<137, 80, 78, 71, 13, 10, 26, 11>>,
             <<255, 216, 255>>, <<255, 216, 0>>, <<71, 73, 70, 56>>,
             <<71, 73, 70, 55>>, <<82, 73, 70, 70>>, <<82, 73, 70, 71>>, <<>>}
        BufferTails == {<<87, 69, 66, 80>>, <<87, 69, 66, 81>>, <<0, 0, 0, 0>>}
        BufferLengths == {0, 2, 3, 4, 8, 11, 12, MaxBufferLength}
        MakeBuffer(head, tail, n) ==
            [i \in 1..n |-> IF i <= Len(head) THEN head[i]
                            ELSE IF i \in 9..12 THEN tail[i - 8] ELSE 0]
    IN {MakeBuffer(h, t, n) : h \in BufferHeads, t \in BufferTails,
                              n \in BufferLengths}

\* a caller applies getImageType to a buffer
GetImageType(buffer, pure, checkIsImage) ==
    /\ last' = BackendLast("getImageType", <<buffer, pure, checkIsImage>>,
                           getImageType(buffer, pure, checkIsImage), FALSE,
                           "none")
    /\ UNCHANGED ServiceIdle
    /\ UNCHANGED <<objects, fetched>>

InitClassify == InitBackend /\ backendType = "local" /\ config = DefaultConfig
NextClassify ==
    \E buffer \in Buffers, pure \in BOOLEAN, checkIsImage \in BOOLEAN :
       GetImageType(buffer, pure, checkIsImage)
SpecClassify == InitClassify /\ [][NextClassify]_vars

\* --------------------------------------- the sweeps, each run on its own
\* The value of the table when a sweep has run from its database.get to its
\* return with no other operation in between.
PolicyFiles == 4       \* rows the table may hold when a sweep starts

\* execute(): the rows that database.get({expireTime: {$lt: now}}) returns
\* are removed, whether their backend delete throws or not
execute(d, t) == [k \in {i \in DOMAIN d : ~(d[i].expireTime < t)} |-> d[k]]

\* `if (totalSize <= maxSizeBytes) return`; AtMost80OfBudget is the test
\* against 80% of the budget
AtMost80OfBudget(totalSize, maxSizeBytes) == totalSize * 10 <= maxSizeBytes * 8
WithinBudget(totalSize, maxSizeBytes) == totalSize <= maxSizeBytes

\* the loop of cleanupByStorageSize over the sorted files
RECURSIVE SizeLoop(_, _, _)
SizeLoop(d, sortedFiles, currentSize) ==
    IF sortedFiles = <<>> \/ AtMost80(currentSize, MaxSizeBytes) THEN d
    ELSE SizeLoop(DbRemove(d, Head(sortedFiles)), Tail(sortedFiles),
                  currentSize - d[Head(sortedFiles)].size)

cleanupByStorageSize(d) ==
    IF WithinBudget(SumSize(d, DOMAIN d), MaxSizeBytes) THEN d
    ELSE SizeLoop(d, SortAscending(d, DOMAIN d), SumSize(d, DOMAIN d))

\* files.length - Math.floor(maxStorageCount * 0.8); FilesToDeleteOfLength
\* takes 80% of the number of files instead
FilesToDeleteOfLength(length) == length - Floor80(length)
FilesToDelete(length) == length - Floor80(MaxStorageCount)

\* `if (files.length <= this.config.maxStorageCount) return`; BelowCount is
\* the test with `<`
BelowCount(length, maxStorageCount) == length < maxStorageCount
WithinCount(length, maxStorageCount) == length <= maxStorageCount

cleanupByFileCount(d) ==
    IF WithinCount(Cardinality(DOMAIN d), MaxStorageCount) THEN d
    ELSE LET sortedFiles == SortAscending(d, DOMAIN d)
             gone == {sortedFiles[i] : i \in 1..FilesToDelete(Len(sortedFiles))}
         IN [k \in (DOMAIN d) \ gone |-> d[k]]

\* executeCleanup(): the size policy, then the count policy;
\* ExecuteCleanupSizeOnly is one without `await this.cleanupByFileCount()`
ExecuteCleanupSizeOnly(d) == cleanupByStorageSize(d)
executeCleanup(d) == cleanupByFileCount(cleanupByStorageSize(d))

\* the interval callback: execute(), then executeCleanup()
IntervalCallback(d, t) == executeCleanup(execute(d, t))

RECURSIVE RemoveAllFromLRU(_, _)
RemoveAllFromLRU(L, ids) ==
    IF ids = <<>> THEN L
    ELSE RemoveAllFromLRU(removeFromLRU(L, Head(ids)), Tail(ids))

\* a stored row with the given size, access time and expiry
PolicyRow(n, size, t, e) ==
    [LegacyRow(n) EXCEPT !.size = size, !.accessTime = t, !.expireTime = e]

\* the table holds some rows, each with its file, and initializeLRU has run.
\* A row is an empty file, a small one or one that fills the size budget,
\* expired or not; the rows were last read in the order of their ids, in
\* the opposite order, or all at the same time.
InitPolicy ==
    LET PolicySizes == {0, 1, MaxSizeBytes}
        PolicyExpiries == {StartTime - 1, MaxTime + TempCacheTime}
        PolicyOrders == {"ascending", "descending", "tied"}
        PolicyTime(order, n) ==
            CASE order = "ascending" -> n
              [] order = "descending" -> PolicyFiles - n
              [] OTHER -> 0
    IN
    /\ rev = "hash"
    /\ backendType = "s3"
    /\ config = DefaultConfig
    /\ fetched = NoRequest
    /\ turn = "free"
    /\ active = TRUE
    /\ now = StartTime
    /\ \E n \in 0..PolicyFiles :
          \E size \in [0..(n - 1) -> PolicySizes],
             order \in PolicyOrders,
             e \in [0..(n - 1) -> PolicyExpiries] :
             db = [k \in {IdKey(i) : i \in 0..(n - 1)} |->
                     PolicyRow(k \div 2, size[k \div 2],
                               PolicyTime(order, k \div 2), e[k \div 2])]
    /\ objects = [k \in {db[i].path : i \in DOMAIN db} |-> 1]
    /\ uploads = 0
    /\ LET L == AddAllToLRU(EmptyLRU, SortDescending(db, DOMAIN db))
       IN lruNext = L.next /\ lruPrev = L.prev /\ lruMap = L.map
    /\ nextId = PolicyFiles
    /\ callsLeft = 0
    /\ call = [s \in Slots |-> IdleCall]
    /\ backfill = {}
    /\ sw = [p \in Sweepers |-> IdleSweep]
    /\ lruInit = FALSE
    /\ last = NoLast

\* a sweep ran alone and left table d: the files of the removed rows are
\* deleted and, except for the expiry loop of storage.ts, their LRU entries
Swept(name, d, expired) ==
    LET removed == (DOMAIN db) \ (DOMAIN d)
        unlinked == IF RemovesLRUEntry(rev, "expire") THEN removed
                    ELSE removed \ expired
        L == RemoveAllFromLRU(LRU, SeqOfSet(unlinked))
    IN /\ db' = d
       /\ objects' = [k \in (DOMAIN objects) \ {db[i].path : i \in removed} |->
                        objects[k]]
       /\ lruNext' = L.next /\ lruPrev' = L.prev /\ lruMap' = L.map
       /\ last' = [NoLast EXCEPT !.op = name, !.arg = Cardinality(removed)]
       /\ UNCHANGED <<rev, backendType, config, fetched, turn, active, now,
                      uploads, nextId, callsLeft, call, backfill, sw, lruInit>>

ExpiredRows == (DOMAIN db) \ DOMAIN execute(db, now)

Execute == Swept("execute", execute(db, now), ExpiredRows)
CleanupByStorageSize == Swept("cleanupByStorageSize", cleanupByStorageSize(db), {})
CleanupByFileCount == Swept("cleanupByFileCount", cleanupByFileCount(db), {})
Interval == Swept("interval", IntervalCallback(db, now), ExpiredRows)

NextPolicy == Execute \/ CleanupByStorageSize \/ CleanupByFileCount \/ Interval
SpecPolicy == InitPolicy /\ [][NextPolicy]_vars

\* ------------------------------------------------- the LRU list on its own
MaxLRUKeys == 5        \* distinct file ids given to addToLRU / removeFromLRU
LRUKeys == 0..(MaxLRUKeys - 1)

\* this.addToLRU(fileId)
AddToLRU(fileId) ==
    LET L == addToLRU(LRU, fileId)
    IN /\ lruNext' = L.next /\ lruPrev' = L.prev /\ lruMap' = L.map
       /\ last' = [NoLast EXCEPT !.op = "addToLRU", !.arg = fileId]
       /\ UNCHANGED <<rev, backendType, config, fetched, turn, active, now,
                      db, objects, uploads, nextId, callsLeft, call, backfill,
                      sw, lruInit>>

\* this.removeFromLRU(fileId)
RemoveFromLRU(fileId) ==
    LET L == removeFromLRU(LRU, fileId)
    IN /\ lruNext' = L.next /\ lruPrev' = L.prev /\ lruMap' = L.map
       /\ last' = [NoLast EXCEPT !.op = "removeFromLRU", !.arg = fileId]
       /\ UNCHANGED <<rev, backendType, config, fetched, turn, active, now,
                      db, objects, uploads, nextId, callsLeft, call, backfill,
                      sw, lruInit>>

\* the list as the constructor leaves it
InitLRU == InitBackend /\ backendType = "local" /\ config = DefaultConfig
NextLRU == \E fileId \in LRUKeys : AddToLRU(fileId) \/ RemoveFromLRU(fileId)
SpecLRU == InitLRU /\ [][NextLRU]_vars

\* ------------------------------------- rows stored under another backend
\* The service is started with any backend over a table whose first row was
\* written while another (or the same) backend was configured.
\* a row stored under the given backend type; part_000 wrote its hash
MigratedRow(n, type) ==
    [LegacyRow(n) EXCEPT
        !.storageType = type,
        !.hash = IF rev = "hash" /\ type # "local"
                 THEN computeHash(1) ELSE NoHash]

\* the bytes of a row are within reach of this service when they are a
\* local file or an object of the active backend
InitMigrate ==
    /\ rev \in Revs
    /\ backendType \in BackendTypes
    /\ config = DefaultConfig
    /\ fetched = NoRequest
    /\ turn = "startExec"
    /\ active = TRUE
    /\ now = StartTime
    /\ \E type \in BackendTypes :
          db = [k \in {IdKey(i) : i \in 0..(LegacyFiles - 1)} |->
                  IF k = IdKey(0) THEN MigratedRow(0, type)
                  ELSE LegacyRow(k \div 2)]
    /\ objects = [k \in {db[i].path : i \in {j \in DOMAIN db :
                            db[j].storageType \in {"local", backendType}}} |-> 1]
    /\ uploads = 0
    /\ lruNext = EmptyLRU.next
    /\ lruPrev = EmptyLRU.prev
    /\ lruMap = EmptyLRU.map
    /\ nextId = LegacyFiles
    /\ callsLeft = MaxCalls
    /\ call = [s \in Slots |-> IdleCall]
    /\ backfill = {}
    /\ sw = [p \in Sweepers |->
               CASE p = "startExec" ->
                      [IdleSweep EXCEPT !.pc = "query", !.phase = "expire",
                                        !.cutoff = StartTime]
                 [] p = "startCleanup" ->
                      [IdleSweep EXCEPT !.pc = "query", !.phase = "size"]
                 [] OTHER -> IdleSweep]
    /\ lruInit = TRUE
    /\ last = NoLast
SpecMigrate == InitMigrate /\ [][Next]_vars

\* ------------------------------------- the status tests of the backends
\* What each operation of a remote backend does with the status of the
\* response to its request.
\* upload: `!response.ok` (S3, R2); WebDAV adds `&& status !== 201 &&
\* status !== 204`
UploadThrows(type, status) ==
    IF type = "webdav"
    THEN status \notin 200..299 /\ status # 201 /\ status # 204
    ELSE status \notin 200..299

\* download: `!response.ok`; DownloadTolerates404 is a download with the
\* test of delete
DownloadTolerates404(status) == status \notin 200..299 /\ status # 404
DownloadThrows(status) == status \notin 200..299

\* the operation has its response: it returns or throws
ResponseHandled(op, status) ==
    /\ last' =
         CASE op = "upload" ->
                BackendLast(op, status, NULL, UploadThrows(backendType, status),
                            "none")
           [] op = "download" ->
                BackendLast(op, status, NULL, DownloadThrows(status), "none")
           [] op = "delete" ->
                BackendLast(op, status, NULL, ~DeleteTolerates(status), "none")
           [] OTHER ->
                BackendLast(op, status, status \in 200..299, FALSE, "none")
    /\ UNCHANGED ServiceIdle
    /\ UNCHANGED <<objects, fetched>>

InitStatus == InitBackend /\ backendType # "local" /\ config = DefaultConfig
NextStatus ==
    \E op \in {"upload", "download", "delete", "exists"},
       status \in {200, 201, 204, 206, 301, 304, 400, 403, 404, 405, 500, 503} :
       ResponseHandled(op, status)
SpecStatus == InitStatus /\ [][NextStatus]_vars

\* ----------------------------------------- the WebDAV upload, request by
\* request.  Here `fetched` is the sequence of the requests the upload has
\* issued, each with the response it got: <<method, url, status>>.
\* fetch() rejects (no response)
NetworkError == 0

\* ensureDirectory(path): the loop over path.split('/') with currentPath;
\* the collections MKCOL is sent for, in the order of the requests
RECURSIVE ensureDirectory(_, _)
ensureDirectory(parts, currentPath) ==
    IF parts = <<>> THEN <<>>
    ELSE IF Head(parts) = "" THEN ensureDirectory(Tail(parts), currentPath)
    ELSE <<Append(currentPath, Head(parts))>>
           \o ensureDirectory(Tail(parts), Append(currentPath, Head(parts)))

\* the body of `if (!response.ok && status !== 405 && status !== 201)` is
\* empty: no status of MKCOL ends the upload; MkcolThrowsUnlessCreated is
\* a loop that throws there
MkcolThrowsUnlessCreated(status) == status \notin 200..299 /\ status # 405
MkcolThrows(status) == FALSE

\* upload(buffer, filename) with the responses the server gives to the
\* MKCOL requests and to the PUT
WebDAVUpload(c, filename, responses, putStatus) ==
    LET remotePath == config.basePath \o <<"temp", filename>>
        dirs == ensureDirectory(config.basePath \o <<"temp">>, <<>>)
        mkcol == [i \in 1..Len(dirs) |->
                    <<"MKCOL", <<"endpoint">> \o encodePath(dirs[i]) \o <<"">>,
                      responses[i]>>]
        ended == {i \in 1..Len(dirs) :
                     responses[i] = NetworkError \/ MkcolThrows(responses[i])}
        url == <<"endpoint">> \o encodePath(remotePath)
        throws == putStatus = NetworkError \/ UploadThrows("webdav", putStatus)
    IN /\ Len(responses) = Len(dirs)
       /\ IF ended # {}
          THEN /\ fetched' = SubSeq(mkcol, 1, FirstOf(ended))
               /\ objects' = objects
               /\ last' = BackendLast("upload", c, <<>>, TRUE, "mkcol")
          ELSE /\ fetched' = Append(mkcol, <<"PUT", url, putStatus>>)
               /\ objects' = IF putStatus \in 200..299
                             THEN [k \in (DOMAIN objects) \cup {url} |->
                                     IF k = url THEN c ELSE objects[k]]
                             ELSE objects
               /\ last' = BackendLast("upload", c,
                                      IF throws THEN <<>> ELSE remotePath,
                                      throws, "put")
       /\ UNCHANGED ServiceIdle

\* config.basePath split at '/': the default, two segments, a leading
\* slash, a doubled slash, the empty string
InitWebDAV ==
    /\ rev = "hash"
    /\ backendType = "webdav"
    /\ config \in [credentials : {TRUE}, pathStyle : {FALSE},
                   basePath : {<<"chatluna-storage">>, <<"a", "c d">>,
                               <<"", "a">>, <<"a", "", "b">>, <<"">>}]
    /\ fetched = NoRequest
    /\ turn = "any"
    /\ active = TRUE
    /\ now = StartTime
    /\ db = EmptyDb
    /\ objects = EmptyObjects
    /\ uploads = 0
    /\ lruNext = EmptyLRU.next
    /\ lruPrev = EmptyLRU.prev
    /\ lruMap = EmptyLRU.map
    /\ nextId = LegacyFiles
    /\ callsLeft = 0
    /\ call = [s \in Slots |-> IdleCall]
    /\ backfill = {}
    /\ sw = [p \in Sweepers |-> IdleSweep]
    /\ lruInit = FALSE
    /\ last = NoLast

NextWebDAV ==
    \E filename \in {"a", "c d"}, putStatus \in {201, 403, NetworkError} :
       \E responses \in
             [1..Len(ensureDirectory(config.basePath \o <<"temp">>, <<>>)) ->
                 {201, 405, 500, NetworkError}] :
          WebDAVUpload(1, filename, responses, putStatus)
SpecWebDAV == InitWebDAV /\ [][NextWebDAV]_vars

\* ================================================================ claims
LRUHeadKey == LRUFirst(LRU)
CurrentTotalSize == SumSize(db, DOMAIN db)
Expired(i) == i \in Live /\ db[i].expireTime < now
\* the row was written by createTempFile of this run
Created(i) == i \div 2 >= LegacyFiles
\* the stored bytes of a row are the bytes c
SameBytes(row, c) == row.path \in DOMAIN objects /\ objects[row.path] = c
\* the step is sweeper p's return from database.remove
Removes(p) == sw[p].pc = "remove" /\ sw'[p] # sw[p]
Coldest(d, id, others) ==
    id \in DOMAIN d /\ \A j \in others : d[id].accessTime <= d[j].accessTime

\* C1: a createTempFile call that runs alone while a row created from the
\* same bytes is live issues no upload and adds no row; it returns that
\* row's id, raises the stored accessCount by one and sets accessTime to
\* the clock it read
C1_SequentialDedup ==
    [][\A s \in Slots :
         LET c == IF call[s].op = "create" THEN call[s] ELSE call'[s]
             same == {i \in Live : Created(i) /\ SameBytes(db[i], c.arg)}
         IN (c.op = "create" /\ turn # "any" /\ same # {}) =>
              /\ uploads' = uploads
              /\ DOMAIN db' = DOMAIN db
              /\ (call[s].op = "create" /\ call'[s].op = "idle") =>
                   \E i \in same :
                      /\ last'.op = "createHit" /\ last'.res = i
                      /\ db'[i].accessCount = db[i].accessCount + 1
                      /\ db'[i].accessTime = call[s].t]_vars

\* C2: no two live rows carry the same non-empty hash
C2_UniqueContentHash ==
    \A i, j \in Live :
       (i # j /\ db[i].hash # NoHash) => db[i].hash # db[j].hash

\* C3: while the scope is active and the interval fires, a row whose
\* expireTime is in the past is eventually removed from the table
C3_ExpiredEventuallyRemoved ==
    \A i \in {IdKey(n) : n \in 0..MaxFiles} :
       Expired(i) ~> (i \notin Live \/ ~active)

\* C3 witness: the expiry loop removed a row although the store was within
\* both budgets, after a backend delete that threw
C3_Witness ==
    /\ last.op = "remove" /\ last.by = "expire" /\ last.threw
    /\ last.id \notin Live
    /\ Cardinality(Live) + 1 <= MaxStorageCount
    /\ CurrentTotalSize + BufferLength(1) <= MaxSizeBytes

\* C4: every removal of the count policy, run alone, removes a row that is
\* no younger than any row left, and when the policy returns the table
\* holds floor(0.8 * maxStorageCount) rows
C4_CountPolicy ==
    [][\A p \in Sweepers :
         (turn # "any" /\ sw[p].phase = "count" /\ Removes(p)) =>
            /\ Coldest(db, Head(sw[p].queue).id, DOMAIN db')
            /\ Head(sw[p].queue).id \notin DOMAIN db'
            /\ sw'[p].pc = "idle" =>
                 /\ 10 * Cardinality(DOMAIN db') <= 8 * MaxStorageCount
                 /\ 10 * (Cardinality(DOMAIN db') + 1) > 8 * MaxStorageCount]_vars

C4_Witness ==
    /\ turn = "free"
    /\ last.op = "remove" /\ last.by = "count"
    /\ sw["timer"].pc = "idle"
    /\ 10 * Cardinality(Live) <= 8 * MaxStorageCount
    /\ Cardinality(Live) > 0

\* C5: every removal of the size policy, run alone, happens while the sum
\* of sizes is above 80% of the budget and removes a row no younger than
\* any row left; when the loop ends the sum is at most 80% of the budget
C5_SizePolicy ==
    [][\A p \in Sweepers :
         (turn # "any" /\ sw[p].phase = "size" /\ Removes(p)) =>
            /\ 10 * CurrentTotalSize > 8 * MaxSizeBytes
            /\ Coldest(db, Head(sw[p].queue).id, DOMAIN db')
            /\ sw'[p].phase # "size" =>
                 10 * CurrentTotalSize' <= 8 * MaxSizeBytes]_vars

C5_Witness ==
    /\ turn = "timer"
    /\ last.op = "remove" /\ last.by = "size"
    /\ sw["timer"].phase = "count"
    /\ Live # {}
    /\ 10 * CurrentTotalSize <= 8 * MaxSizeBytes

\* C6: a row removed by an eviction policy is, when its row is removed, no
\* younger than any row that is live at that moment
C6_ColdestRemovedFirst ==
    [][\A p \in Sweepers :
         (Removes(p) /\ sw[p].phase \in {"size", "count"}
            /\ Head(sw[p].queue).id \in Live) =>
            Coldest(db, Head(sw[p].queue).id, Live)]_vars

\* C7: when the removal of a file completes, neither its row nor its LRU
\* entry is left, and a failed backend delete does not end the sweep
C7_RemoveCleansBoth ==
    [][\A p \in Sweepers :
         /\ Removes(p) =>
              /\ Head(sw[p].queue).id \notin DOMAIN db'
              /\ Head(sw[p].queue).id \notin lruMap'
         /\ (sw[p].pc = "delete" /\ sw'[p] # sw[p]) => sw'[p].pc = "remove"]_vars

\* C8: getTempFile on a row whose read fails deletes the row and its LRU
\* entry and returns null
C8_FailedReadPurges ==
    [][\A s \in Slots :
         (call[s].op = "get" /\ call[s].pc = "set" /\ call'[s].op = "idle"
            /\ downloadFile(call[s].file) = ReadError) =>
            /\ call[s].file.id \notin DOMAIN db'
            /\ call[s].file.id \notin lruMap'
            /\ last'.res = NULL]_vars

\* C9: a getTempFile call that runs alone returns null exactly when no live
\* row has the argument as id or as name, and then the table, the LRU list
\* and the stored objects are as before
C9_NotFound ==
    [][\A s \in Slots :
         (turn # "any" /\ call[s].op = "get" /\ call'[s].op = "idle") =>
            LET x == call[s].arg
                nomatch == x \notin Live /\ \A i \in Live : db[i].name # x
            IN /\ (last'.op = "get" /\ last'.arg = x)
               /\ (last'.res = NULL) <=> nomatch
               /\ nomatch => /\ ~last'.threw
                             /\ UNCHANGED <<db, objects, uploads, lruNext,
                                            lruPrev, lruMap, backfill>>]_vars

C9_Witness ==
    /\ turn = "free"
    /\ last.op = "get" /\ last.res = NULL /\ last.arg = UnknownKey
    /\ Live # {}

\* C10: a getTempFile call that runs alone and matches row r leaves r with
\* accessCount one higher, accessTime the clock it read, and the LRU entry
\* of r.id next to the head
C10_GetRefreshes ==
    [][\A s \in Slots :
         (turn # "any" /\ call[s].op = "get" /\ call[s].pc = "set"
            /\ call'[s].op = "idle") =>
            LET r == call[s].file.id
            IN /\ r \in DOMAIN db'
               /\ db'[r].accessCount = db[r].accessCount + 1
               /\ db'[r].accessTime = call[s].t
               /\ LRUHeadKey' = r]_vars

\* C11: the accessCount stored for a live row never decreases from one state
\* to the next, whatever getTempFile and createTempFile calls interleave
C11_AccessCountMonotonic ==
    [][\A i \in (DOMAIN db) \cap (DOMAIN db') :
          db'[i].accessCount >= db[i].accessCount]_vars

\* ids the table may hold
Ids == {IdKey(n) : n \in 0..MaxFiles}
\* a createTempFile call in flight owns the id
InFlightId(i) ==
    \E s \in Slots : call[s].op = "create" /\ IdKey(call[s].newId) = i
\* the id was handed out, has no row, and no call is about to create it
Retired(i) == i \notin Live /\ i \div 2 < nextId /\ ~InFlightId(i)

\* C12: an id whose row was removed is retired, and a retired id stays
\* without a row: no later write of a call in flight brings the row back
C12_NoResurrection ==
    [][\A i \in Ids :
          /\ (i \in DOMAIN db /\ i \notin DOMAIN db') => Retired(i)'
          /\ Retired(i) => Retired(i)']_vars

\* C12 witness: getTempFile wrote the access fields of a row that a sweep
\* had removed after the lookup
C12_Witness ==
    /\ last.op = "get" /\ last.id # NULL
    /\ last.id \notin Live

\* nothing is in flight and initializeLRU has finished
Quiescent ==
    /\ ~lruInit
    /\ backfill = {}
    /\ \A s \in Slots : call[s].op = "idle"
    /\ \A p \in Sweepers : sw[p].pc = "idle"

\* C13: in a quiescent state the keys of lruMap are the ids of the rows
C13_IndexMatchesRows == Quiescent => lruMap = Live

\* C14: the expireTime written by createTempFile is the creation time plus
\* expireHours for every supplied expireHours, zero included, and plus
\* tempCacheTime when none is supplied
C14_ExpireTime ==
    [][\A s \in Slots :
         (call[s].op = "create" /\ call[s].pc = "persist"
            /\ call'[s].op = "idle") =>
            LET id == IdKey(call[s].newId)
                hours == IF call[s].expireHours = NoTtl
                         THEN TempCacheTime ELSE call[s].expireHours
            IN id \in DOMAIN db' /\ db'[id].expireTime = call[s].t + hours]_vars

\* C15: a createTempFile whose upload fails throws to the caller, writes no
\* row and leaves the LRU list as it was
C15_UploadFailureSurfaces ==
    [][(uploads' = uploads + 1 /\ objects' = objects) =>
          /\ last'.op = "createFailed" /\ last'.threw
          /\ db' = db
          /\ lruMap' = lruMap /\ lruNext' = lruNext /\ lruPrev' = lruPrev
          /\ \A s \in Slots :
                call'[s].pc = "persist" => call[s].pc = "persist"]_vars

C15_Witness ==
    /\ last.op = "createFailed" /\ last.threw
    /\ uploads > 0
    /\ \A i \in Live : ~Created(i)

\* C18: when database.get of an eviction policy returns, the expiry loop
\* of the same run has finished; for the run started by the constructor
\* that is execute() having returned
C18_EvictionAfterExpiry ==
    [][(sw["startCleanup"].pc = "query" /\ sw["startCleanup"].phase = "size"
          /\ sw'["startCleanup"] # sw["startCleanup"]) =>
          sw["startExec"].pc = "idle"]_vars

\* C19: on an inactive scope no execute() goes past its isActive test and
\* no executeCleanup() starts a policy
C19_NoRunAfterDispose ==
    [][~active =>
         \A p \in Sweepers :
            /\ sw[p].pc = "idle" => sw'[p].pc = "idle"
            /\ sw[p].phase = "expire" => sw'[p].phase \notin {"size", "count"}]_vars

\* C19 witness: the scope was disposed during execute() of the interval
\* callback; the callback ended with the table over maxStorageCount
C19_Witness ==
    /\ ~active
    /\ sw["timer"].pc = "idle"
    /\ last.op = "remove" /\ last.by = "expire"
    /\ Cardinality(Live) > MaxStorageCount

\* C16: for each backend, delete(key) on a key whose object does not exist
\* does not throw and leaves the stored objects as they were, so a second
\* delete of the same key changes nothing
C16_DeleteIdempotent ==
    [][(last'.op = "delete" /\ ~Unauthenticated(backendType, config)
          /\ DeleteLocation(backendType, config, last'.arg) \notin DOMAIN objects) =>
          ~last'.threw /\ objects' = objects]_vars

\* C16 witness: a remote backend was asked to delete a key that has no
\* object, other objects being stored, and did not throw
C16_Witness ==
    /\ last.op = "delete" /\ last.by = "missing" /\ ~last.threw
    /\ backendType = "webdav"
    /\ fetched # NoRequest
    /\ objects # EmptyObjects

\* C17: for each backend, download(k) of the key k that an upload has just
\* returned yields the bytes that were uploaded
C17_RoundTrip ==
    [][(last.op = "upload" /\ ~last.threw /\ last'.op = "download"
          /\ last'.arg = last.res) =>
          ~last'.threw /\ last'.res = last.arg]_vars

\* C17 witness: WebDAV returned the bytes of a file whose name needs
\* percent-encoding
C17_Witness ==
    /\ backendType = "webdav"
    /\ last.op = "download" /\ ~last.threw
    /\ last.arg = UploadKey("webdav", "c d")
    /\ last.res = 2

\* C20: with S3 or R2 credentials missing, every operation throws and no
\* network request is issued
C20_SigningFailsFast ==
    [][(Unauthenticated(backendType, config) /\ last'.op # "none"
          /\ last' # last) =>
          last'.threw /\ fetched' = NoRequest]_vars

\* the bytes of sig stand in buffer from index at (from 0)
HasBytesAt(buffer, sig, at) ==
    /\ Len(buffer) >= at + Len(sig)
    /\ SubSeq(buffer, at + 1, at + Len(sig)) = sig
\* the signatures in the order PNG, JPEG, GIF, WebP, with their tokens
SignatureTokens == <<<<"png", "image/png">>, <<"jpg", "image/jpeg">>,
                     <<"gif", "image/gif">>, <<"webp", "image/webp">>>>
MatchesSignature(k, buffer) ==
    CASE k = 1 -> HasBytesAt(buffer, <<137, 80, 78, 71, 13, 10, 26, 10>>, 0)
      [] k = 2 -> HasBytesAt(buffer, <<255, 216, 255>>, 0)
      [] k = 3 -> HasBytesAt(buffer, <<71, 73, 70, 56>>, 0)
      [] OTHER -> /\ HasBytesAt(buffer, <<82, 73, 70, 70>>, 0)
                  /\ HasBytesAt(buffer, <<87, 69, 66, 80>>, 8)

\* C21: getImageType answers 'not an image' for every buffer shorter than
\* 12 bytes when checkIsImage is set, whatever its leading bytes; for a
\* buffer of 12 bytes or more it answers the token of the first of PNG,
\* JPEG, GIF, WebP whose signature the buffer carries, and when it carries
\* none, 'not an image' with checkIsImage set and the JPEG token without
C21_Classifier ==
    last.op = "getImageType" =>
       LET buffer == last.arg[1]
           pure == last.arg[2]
           checkIsImage == last.arg[3]
           matching == {k \in 1..4 : MatchesSignature(k, buffer)}
           first == CHOOSE k \in matching : \A j \in matching : k <= j
           token(k) == SignatureTokens[k][IF pure THEN 1 ELSE 2]
       IN /\ (Len(buffer) < 12 /\ checkIsImage) => last.res = undefined
          /\ Len(buffer) >= 12 =>
               /\ matching # {} => last.res = token(first)
               /\ (matching = {} /\ checkIsImage) => last.res = undefined
               /\ (matching = {} /\ ~checkIsImage) => last.res = token(2)

\* C21 witness: an 11-byte buffer that begins with the PNG signature was
\* classified with checkIsImage set and is not an image
C21_Witness ==
    /\ last.op = "getImageType"
    /\ Len(last.arg[1]) = 11
    /\ HasBytesAt(last.arg[1], <<137, 80, 78, 71, 13, 10, 26, 10>>, 0)
    /\ last.arg[3]
    /\ last.res = undefined

\* C22: every request an S3 or R2 operation sends carries in
\* x-amz-content-sha256 the payload hash that was signed in the canonical
\* request: the SHA-256 digest of the body for PUT, of the empty body for
\* DELETE, and the sentinel UNSIGNED-PAYLOAD for GET and HEAD
C22_PayloadHash ==
    (Signed(backendType) /\ fetched # NoRequest) =>
       /\ fetched[4] = fetched[5]
       /\ fetched[4] = IF fetched[1] \in {"PUT", "DELETE"}
                       THEN <<"sha256", fetched[3]>>
                       ELSE <<"UNSIGNED-PAYLOAD">>
       /\ fetched[1] = "PUT" <=> fetched[3] # 0

\* C22 witness: R2 sent an upload whose body is not empty, signed with the
\* digest of that body
C22_Witness ==
    /\ backendType = "r2"
    /\ fetched # NoRequest
    /\ fetched[1] = "PUT"
    /\ fetched[3] = 2
    /\ fetched[5] = <<"sha256", 2>>
    /\ last.op = "upload"

\* the rows left when the two policies have run in either order
SizeThenCount == DOMAIN cleanupByFileCount(cleanupByStorageSize(db))
CountThenSize == DOMAIN cleanupByStorageSize(cleanupByFileCount(db))
OverSizeBudget == CurrentTotalSize > MaxSizeBytes
OverCountBudget == Cardinality(Live) > MaxStorageCount
WithinBothBudgets(S) ==
    Cardinality(S) <= MaxStorageCount /\ SumSize(db, S) <= MaxSizeBytes

\* C23 as stated: for every content of the table, the size policy followed
\* by the count policy leaves the same rows as the count policy followed by
\* the size policy
C23_OrderAgnostic == SizeThenCount = CountThenSize

\* C23 amended: the two orders leave the same rows whenever at most one of
\* the two budgets is exceeded; when both are exceeded the rows left may
\* differ, but in either order they are within both budgets and the rows of
\* one order are among the rows of the other
C23_OrderAgnosticOneBudget ==
    /\ ~(OverSizeBudget /\ OverCountBudget) => SizeThenCount = CountThenSize
    /\ WithinBothBudgets(SizeThenCount) /\ WithinBothBudgets(CountThenSize)
    /\ SizeThenCount \subseteq CountThenSize \/ CountThenSize \subseteq SizeThenCount

\* C23 witness: only the count budget is exceeded, and exactly the budget
\* of sizes is stored; a policy has removed rows before
C23_Witness ==
    /\ OverCountBudget /\ CurrentTotalSize = MaxSizeBytes
    /\ last.op = "execute" /\ last.arg > 0
    /\ SizeThenCount = CountThenSize
    /\ SizeThenCount # Live

\* rows whose expireTime is not in the past
Unexpired == {i \in Live : db[i].expireTime >= now}
\* the entries of the LRU list that are in S, most recent first
LRUOrderOf(L, S) == SelectSeq(LRUOrder(L), LAMBDA x : x \in S)

\* C24: an interval callback that runs alone and finds the rows that are
\* not expired within both budgets, exactly at a cap included, removes none
\* of them and leaves their rows, their files and their LRU entries as they
\* were
C24_TickWithinBudgets ==
    [][(last'.op = "interval"
          /\ Cardinality(Unexpired) <= MaxStorageCount
          /\ SumSize(db, Unexpired) <= MaxSizeBytes) =>
          /\ \A i \in Unexpired :
                /\ i \in DOMAIN db' /\ db'[i] = db[i]
                /\ db[i].path \in DOMAIN objects'
                /\ objects'[db[i].path] = objects[db[i].path]
                /\ i \in lruMap'
          /\ LRUOrderOf(LRU', Unexpired) = LRUOrderOf(LRU, Unexpired)]_vars

\* C24 witness: the callback removed expired rows and left rows that fill
\* both budgets exactly
C24_Witness ==
    /\ last.op = "interval" /\ last.arg > 0
    /\ Cardinality(Live) = MaxStorageCount
    /\ CurrentTotalSize = MaxSizeBytes
    /\ lruMap = Live
    /\ Len(LRUOrder(LRU)) = MaxStorageCount

\* C25: an interval callback that follows another one, with no create or
\* get in between and no row expiring in between, removes no row
C25_SecondTickRemovesNothing ==
    [][(last.op = "interval" /\ last'.op = "interval") => db' = db]_vars

\* C25 witness: all rows but the newest were removed, and the interval
\* callback that ran after that removed nothing
C25_Witness ==
    /\ last.op = "interval" /\ last.arg = 0
    /\ Live = {IdKey(PolicyFiles - 1)}
    /\ Unexpired = Live

\* C26: when createTempFile returns after having stored new bytes, the
\* table holds exactly one row more, the row of the new id, with
\* accessCount 1, the length of the bytes as size, their digest as hash and
\* the type of the active backend as storageType; the LRU entry of the id
\* is next to the head; and the bytes were uploaded before the row was
\* written
C26_CreateMiss ==
    [][\A s \in Slots :
         (call[s].op = "create" /\ call[s].pc = "persist"
            /\ call'[s].op = "idle") =>
            LET id == IdKey(call[s].newId)
            IN /\ id \notin DOMAIN db
               /\ DOMAIN db' = (DOMAIN db) \cup {id}
               /\ \A i \in DOMAIN db : db'[i] = db[i]
               /\ db'[id].accessCount = 1
               /\ db'[id].size = BufferLength(call[s].arg)
               /\ db'[id].hash = computeHash(call[s].arg)
               /\ db'[id].storageType = backendType
               /\ LRUHeadKey' = id
               /\ uploads > 0
               /\ SameBytes(db'[id], call[s].arg)]_vars

\* the row without its access fields, and without its hash
SansAccess(row) == [row EXCEPT !.accessTime = 0, !.accessCount = 0]
SansHash(row) == [row EXCEPT !.hash = NoHash]

\* C27: the write of getTempFile and of a dedup hit of createTempFile
\* changes accessTime and accessCount of the matched row and nothing else
\* in the table; the write of the hash backfill changes only the hash of a
\* row that had none
C27_AccessFieldsOnly ==
    [][/\ \A s \in Slots :
            (call[s].pc \in {"set", "dedupSet"} /\ call'[s].op = "idle") =>
               /\ DOMAIN db' = DOMAIN db
               /\ \A i \in DOMAIN db :
                     IF i = call[s].file.id
                     THEN SansAccess(db'[i]) = SansAccess(db[i])
                     ELSE db'[i] = db[i]
       /\ backfill' # backfill /\ backfill' \subseteq backfill =>
            /\ DOMAIN db' = DOMAIN db
            /\ \A i \in DOMAIN db :
                  /\ SansHash(db'[i]) = SansHash(db[i])
                  /\ db'[i].hash # db[i].hash => db[i].hash = NoHash]_vars

\* C27 witness: getTempFile raised the accessCount of a row written by an
\* earlier release and its hash was backfilled, another row being stored
C27_Witness ==
    /\ last.op = "get"
    /\ last.id \in Live /\ ~Created(last.id)
    /\ db[last.id].accessCount = 2 /\ db[last.id].hash # NoHash
    /\ \E j \in Live : j # last.id /\ db[j].accessCount = 1

\* the sequence without the element x
SeqWithout(seq, x) == SelectSeq(seq, LAMBDA y : y # x)
\* the elements of a sequence
Range(seq) == {seq[i] : i \in 1..Len(seq)}

\* C28: addToLRU(id) leaves the entry of id next to the head sentinel, the
\* other entries in the order they had, and one entry more when id had
\* none, the same number when it had one
C28_Touch ==
    [][last'.op = "addToLRU" =>
         LET id == last'.arg
             before == LRUOrder(LRU)
             after == LRUOrder(LRU')
         IN /\ lruNext'[HEAD] = id /\ lruPrev'[id] = HEAD
            /\ after # <<>> /\ Head(after) = id
            /\ SeqWithout(after, id) = SeqWithout(before, id)
            /\ Len(after) = Len(before) + (IF id \in Range(before) THEN 0 ELSE 1)
            /\ lruMap' = lruMap \cup {id}
            /\ Range(after) = lruMap']_vars

\* C28 witness: an id that was the least recent of several entries was
\* touched and is now the most recent one
C28_Witness ==
    /\ last.op = "addToLRU"
    /\ LRUHeadKey = last.arg
    /\ Len(LRUOrder(LRU)) = MaxLRUKeys
    /\ LRUOrder(LRU) = <<last.arg>> \o SeqWithout(SeqOfSet(LRUKeys), last.arg)
    /\ last.arg = MaxLRUKeys - 1

\* C29: removeFromLRU(id) on an id without an entry leaves the list and the
\* map as they were; on an id with an entry it removes that entry from the
\* list and the map and leaves the other entries in the order they had
C29_Remove ==
    [][last'.op = "removeFromLRU" =>
         LET id == last'.arg
             before == LRUOrder(LRU)
             after == LRUOrder(LRU')
         IN /\ id \notin lruMap => LRU' = LRU
            /\ after = SeqWithout(before, id)
            /\ lruMap' = lruMap \ {id}
            /\ Range(after) = lruMap']_vars

\* C29 witness: an entry in the middle of the list was removed
C29_Witness ==
    /\ last.op = "removeFromLRU"
    /\ last.arg \notin lruMap
    /\ LRUOrder(LRU) = SeqWithout(SeqOfSet(LRUKeys), last.arg)
    /\ last.arg = 2

\* C30: when initializeLRU has run alone on a table whose rows have
\* distinct accessTime, the list read from the head holds the ids of the
\* rows in descending accessTime, and getLRUVictim returns the id of the
\* row with the oldest accessTime
C30_RebuildOrder ==
    [][(turn # "any" /\ lruInit /\ ~lruInit'
          /\ \A i, j \in Live : i # j => db[i].accessTime # db[j].accessTime) =>
          LET order == LRUOrder(LRU')
          IN /\ Range(order) = Live /\ Len(order) = Cardinality(Live)
             /\ \A k \in 1..(Len(order) - 1) :
                   db[order[k]].accessTime > db[order[k + 1]].accessTime
             /\ Live # {} => Coldest(db, getLRUVictim(LRU'), Live)]_vars

\* C31: when getTempFile or a dedup hit of createTempFile resolves the bytes
\* of a row, a row of the active backend's (remote) type is read through
\* the active backend, a row of type 'local' (or without a type) is read as
\* a local file at its path, nothing but the active backend and the local
\* file system is contacted, and the read succeeds exactly when the bytes
\* are a local file or an object of the active backend
C31_ReadDispatch ==
    [][\A s \in Slots :
          (call[s].pc \in {"set", "dedupSet"} /\ call'[s].op = "idle"
             /\ last'.res # NULL) =>
             LET file == call[s].file
             IN /\ (file.storageType = backendType /\ file.storageType # "local")
                      => last'.by = backendType
                /\ file.storageType = "local" => last'.by = "fs"
                /\ last'.by \in {backendType, "fs"}
                /\ last'.threw =
                      ~(file.path \in DOMAIN objects
                          /\ file.storageType \in {"local", backendType})]_vars

\* C31 witness: under the S3 backend a row stored by S3 was read once, and
\* then the bytes of a row without a type were read from the local file
C31_Witness ==
    /\ backendType = "s3"
    /\ last.op = "get" /\ last.id = IdKey(1) /\ last.by = "fs" /\ ~last.threw
    /\ IdKey(0) \in Live
    /\ db[IdKey(0)].storageType = "s3" /\ db[IdKey(0)].accessCount = 2

C33_MkcolBeforePut ==
    (last.op = "upload"
       /\ \A i \in 1..Len(fetched) :
             fetched[i][1] = "MKCOL" => fetched[i][3] # NetworkError) =>
       LET segs == SelectSeq(config.basePath \o <<"temp">>,
                             LAMBDA x : x # "")
       IN /\ Len(fetched) = Len(segs) + 1
          /\ \A i \in 1..Len(segs) :
                /\ fetched[i][1] = "MKCOL"
                /\ fetched[i][2] =
                     <<"endpoint">> \o encodePath(SubSeq(segs, 1, i)) \o <<"">>
          /\ fetched[Len(segs) + 1][1] = "PUT"

\* C33 witness: with basePath 'a/c d' the three MKCOL requests were answered
\* 405, 500 and 201, the PUT followed and the upload returned
C33_Witness ==
    /\ last.op = "upload" /\ ~last.threw
    /\ config.basePath = <<"a", "c d">>
    /\ Len(fetched) = 4
    /\ fetched[1] = <<"MKCOL", <<"endpoint", "a", "">>, 405>>
    /\ fetched[2] = <<"MKCOL", <<"endpoint", "a", "c%20d", "">>, 500>>
    /\ fetched[3] = <<"MKCOL", <<"endpoint", "a", "c%20d", "temp", "">>, 201>>
    /\ fetched[4][1] = "PUT"

\* C34: for S3, R2 and WebDAV, on a 404 response delete returns normally,
\* download throws and exists returns false; upload and download throw on
\* every response that is not 2xx, delete on every response that is
\* neither 2xx nor 404
C34_StatusHandling ==
    LET status == last.arg
        ok == status \in 200..299
    IN last.op \in {"upload", "download", "delete", "exists"} =>
          /\ last.op = "delete" => (last.threw <=> ~ok /\ status # 404)
          /\ last.op \in {"upload", "download"} /\ ~ok => last.threw
          /\ last.op = "exists" => ~last.threw /\ (status = 404 => last.res = FALSE)

\* C34 witness: the WebDAV backend got 404 for a delete and returned
C34_Witness ==
    /\ backendType = "webdav"
    /\ last.op = "delete" /\ last.arg = 404 /\ ~last.threw

\* C35: getTempFile of part_000 on a row without hash returns the row in
\* the step that starts the backfill, with no hash written yet: the
\* backfill is pending when the read succeeds and is dropped when it
\* fails.  When a pending backfill settles, no row is added or removed and
\* no field changes except the hash of the row of its id (and not even that
\* when the write fails); the caller's result and every call in flight are
\* as before.
C35_Backfill ==
    [][/\ \A s \in Slots :
             (call[s].op = "get" /\ call[s].pc = "set" /\ call'[s].op = "idle"
                /\ rev = "hash" /\ call[s].file.hash = NoHash) =>
                /\ last'.op = "get" /\ last'.res = call[s].file.id
                /\ \A i \in (DOMAIN db) \cap (DOMAIN db') :
                      db'[i].hash = db[i].hash
                /\ IF last'.threw THEN backfill' = backfill
                   ELSE backfill' = backfill \cup
                          {[id |-> call[s].file.id,
                            hash |-> computeHash(objects[call[s].file.path])]}
       /\ (backfill' # backfill /\ backfill' \subseteq backfill) =>
             \E b \in backfill \ backfill' :
                /\ DOMAIN db' = DOMAIN db
                /\ \A i \in DOMAIN db :
                      \/ db'[i] = db[i]
                      \/ i = b.id /\ db'[i] = [db[i] EXCEPT !.hash = b.hash]
                /\ last' = last /\ call' = call]_vars

\* C35 witness: getTempFile returned a row without hash whose bytes were
\* read, the backfill is no longer pending and the row still has no hash:
\* the write failed and nothing else happened
C35_Witness ==
    /\ rev = "hash"
    /\ last.op = "get" /\ last.res = IdKey(1) /\ ~last.threw
    /\ backfill = {}
    /\ IdKey(1) \in Live /\ db[IdKey(1)].hash = NoHash
    /\ db[IdKey(1)].accessCount = 2

\* C36: in every state reached by addToLRU and removeFromLRU, the list
\* from the head sentinel ends at the tail sentinel and holds each key of
\* the map exactly once and nothing else, every entry n has
\* n.prev.next = n and n.next.prev = n, and neither sentinel is a key of
\* the map
C36_ListWellFormed ==
    LET order == LRUOrder(LRU)
        lastNode == IF order = <<>> THEN HEAD ELSE order[Len(order)]
    IN /\ Range(order) = lruMap
       /\ Len(order) = Cardinality(lruMap)
       /\ lruNext[lastNode] = TAIL /\ lruPrev[TAIL] = lastNode
       /\ \A n \in lruMap : lruNext[lruPrev[n]] = n /\ lruPrev[lruNext[n]] = n
       /\ HEAD \notin lruMap /\ TAIL \notin lruMap

\* C36 witness: after touches and removals the list holds three of the ids,
\* not in the order of their first insertion
C36_Witness ==
    /\ last.op = "removeFromLRU" /\ last.arg = 4
    /\ LRUOrder(LRU) = <<0, 3, 1>>
    /\ lruMap = {0, 1, 3}
    /\ lruPrev[TAIL] = 1 /\ lruPrev[1] = 3 /\ lruPrev[3] = 0 /\ lruPrev[0] = HEAD

\* C37: every request S3 or R2 sends was signed with the host of its URL
\* as Host header and with the path of its URL as canonical URI
C37_SignedTarget ==
    (Signed(backendType) /\ fetched # NoRequest) =>
       /\ fetched[6] = Head(fetched[2])
       /\ fetched[7] = Tail(fetched[2])

\* C38: when an interval callback has run alone from its expiry query to
\* the end of the count policy, the table holds no row whose expireTime was
\* before the time the callback started, at most maxStorageCount rows and
\* rows whose sizes sum to at most the size budget; the rows it holds are
\* rows it held before, unchanged
C38_TickPostcondition ==
    [][last'.op = "interval" =>
         /\ \A i \in DOMAIN db' : ~(db'[i].expireTime < now)
         /\ Cardinality(DOMAIN db') <= MaxStorageCount
         /\ SumSize(db', DOMAIN db') <= MaxSizeBytes
         /\ \A i \in DOMAIN db' : i \in DOMAIN db /\ db'[i] = db[i]]_vars

\* C38 witness: the callback removed three rows of four, an expired one
\* and two for the count budget, and left one small row
C38_Witness ==
    /\ last.op = "interval" /\ last.arg = PolicyFiles - 1
    /\ Cardinality(Live) = 1
    /\ CurrentTotalSize = 1
    /\ \A i \in Live : db[i].expireTime >= now

====
